---- MODULE Spec2Model ----
(***************************************************************************)
(* TrafficFlow visualisation backend (vis/backend/app.py, data.py).        *)
(*                                                                         *)
(* Two specifications share this module:                                   *)
(*   Spec       the HTTP layer's lazy-load handle (app.state.traffic) as   *)
(*              it is read, built and written by the worker threads that   *)
(*              run the synchronous endpoints;                             *)
(*   SpecQuery  the in-memory query engine (TrafficData) applied to a      *)
(*              loaded table: vehicles, trajectory, query.                 *)
(*                                                                         *)
(* Times, longitudes and latitudes are Float64 in the program; the model   *)
(* takes them from small ranges of integers (a time unit is one tick), so  *)
(* that floor(time / sample_every) is integer division.                    *)
(***************************************************************************)
EXTENDS Integers, Sequences, FiniteSets, TLC

VARIABLES
    \* ---- app.py: the process-wide handle and the worker threads ----
    csv_columns,    \* the columns of the file at csv_path
    app_traffic,    \* app.state.traffic: NoTraffic or the id of a TrafficData
    pc,             \* per worker: where it stands in its endpoint
    op,             \* per worker: the endpoint it runs
    traffic,        \* per worker: the local variable `traffic` of _get_traffic
    built,          \* per worker: the TrafficData it constructed, not yet stored
    served,         \* per worker: the TrafficData its last answer was read from
    outcome,        \* per worker: how its last request ended
    requests,       \* per worker: requests begun
    failedBefore,   \* per worker: a parse had failed when its request began
    loadsStarted,   \* parses of the source started so far
    loadsFailed,    \* parses that raised
    \* ---- data.py: one TrafficData and the last call made on it ----
    td,             \* the TrafficData object the calls are made on
    req,            \* the last call's arguments
    res             \* the last call's result

vars == <<csv_columns, app_traffic, pc, op, traffic, built, served, outcome,
          requests, failedBefore, loadsStarted, loadsFailed, td, req, res>>

serverVars == <<csv_columns, app_traffic, pc, op, traffic, built, served,
                outcome, requests, failedBefore, loadsStarted, loadsFailed>>

queryVars == <<td, req, res>>

(***************************************************************************)
(* Bounds                                                                  *)
(***************************************************************************)
NumWorkers == 2
MaxRequests == 2
MaxRows == 2
MaxTime == 1
MaxViewRows == 4
MaxViewTime == 3

Workers == 1..NumWorkers

(***************************************************************************)
(* data.py: values                                                         *)
(***************************************************************************)
\* A null cell (data.py:44 null_values): vehicle_x / vehicle_y of a row
\* whose field is empty or NaN.  Real coordinates are >= 0 in the model.
Null == -1

\* The vehicle identifiers, in the lexicographic order of Python's str:
\* "unknown" < "v1" < "v2".  "unknown" never occurs in a file.
IdOrder == <<"unknown", "v1", "v2">>
VehicleIds == {"v1", "v2"}
Coords == {0, 1}
Times == 0..MaxTime

IdRank(v) == CHOOSE i \in 1..Len(IdOrder) : IdOrder[i] = v

\* An optional argument: Python's None, or a value.
None == [present |-> FALSE, v |-> <<>>]
Some(x) == [present |-> TRUE, v |-> x]
NoneNum == [present |-> FALSE, v |-> 0]

Range(s) == {s[i] : i \in 1..Len(s)}

Min(a, b) == IF a <= b THEN a ELSE b
Max(a, b) == IF a >= b THEN a ELSE b

\* Python's s[:n] for n >= 0, polars' q.head(n).
Head_n(s, n) == SubSeq(s, 1, Min(Len(s), n))

(***************************************************************************)
(* data.py: TrafficData._load, TrafficData.__init__                        *)
(***************************************************************************)
is_not_null(r) == r.vehicle_x # Null /\ r.vehicle_y # Null

\* The sort key of df.sort(["vehicle_id", "timestep_time"]).
KeyLE(a, b) ==
    \/ IdRank(a.vehicle_id) < IdRank(b.vehicle_id)
    \/ /\ a.vehicle_id = b.vehicle_id
       /\ a.timestep_time <= b.timestep_time

\* Insert r after every row whose key is <= r's key (stable).
RECURSIVE InsertRow(_, _)
InsertRow(s, r) ==
    IF s = <<>> THEN <<r>>
    ELSE IF KeyLE(s[Len(s)], r) THEN Append(s, r)
    ELSE Append(InsertRow(SubSeq(s, 1, Len(s) - 1), r), s[Len(s)])

RECURSIVE SortRows(_)
SortRows(s) ==
    IF s = <<>> THEN <<>>
    ELSE InsertRow(SortRows(SubSeq(s, 1, Len(s) - 1)), s[Len(s)])

\* TrafficData._load: the required columns, the null drop, the sort.
\* Rows of equal key come out in some order; every order is reached because
\* the files enumerated hold their rows in every order.
load(csv) ==
    IF ~({"timestep_time", "vehicle_id"} \subseteq csv.columns)
    THEN [err |-> "ValueError", df |-> <<>>]
    ELSE IF ~({"vehicle_x", "vehicle_y"} \subseteq csv.columns)
    THEN [err |-> "ValueError", df |-> <<>>]
    ELSE [err |-> "none", df |-> SortRows(SelectSeq(csv.rows, is_not_null))]

MinTimeOf(q) == CHOOSE t \in {q[i].timestep_time : i \in 1..Len(q)} :
                    \A i \in 1..Len(q) : t <= q[i].timestep_time
MaxTimeOf(q) == CHOOSE t \in {q[i].timestep_time : i \in 1..Len(q)} :
                    \A i \in 1..Len(q) : t >= q[i].timestep_time

\* TrafficData.__init__: float(None) raises TypeError when no row is left,
\* since min() of an empty column is None.
TrafficData(csv) ==
    LET l == load(csv) IN
    IF l.err # "none"
    THEN [err |-> l.err, df |-> <<>>, min_time |-> 0, max_time |-> 0,
          row_count |-> 0, vehicle_count |-> 0]
    ELSE IF l.df = <<>>
    THEN [err |-> "TypeError", df |-> <<>>, min_time |-> 0, max_time |-> 0,
          row_count |-> 0, vehicle_count |-> 0]
    ELSE [err |-> "none", df |-> l.df,
          min_time |-> MinTimeOf(l.df), max_time |-> MaxTimeOf(l.df),
          row_count |-> Len(l.df),
          vehicle_count |-> Cardinality({l.df[i].vehicle_id : i \in 1..Len(l.df)})]

(***************************************************************************)
(* data.py: the filters and the sampler                                    *)
(***************************************************************************)
\* TrafficData._apply_time
apply_time(q, time_start, time_end) ==
    LET keep(r) == r.timestep_time >= time_start /\ r.timestep_time <= time_end
    IN  SelectSeq(q, keep)

\* _apply_bbox without the test against east.
apply_bbox_no_east(q, bbox) ==
    IF ~bbox.present THEN [err |-> "none", q |-> q]
    ELSE IF Len(bbox.v) # 4 THEN [err |-> "ValueError", q |-> <<>>]
    ELSE LET west == bbox.v[1]
             south == bbox.v[2]
             north == bbox.v[4]
             keep(r) == /\ r.vehicle_x # Null
                        /\ r.vehicle_y # Null
                        /\ r.vehicle_x >= west
                        /\ r.vehicle_y >= south
                        /\ r.vehicle_y <= north
         IN  [err |-> "none", q |-> SelectSeq(q, keep)]

\* TrafficData._apply_bbox: `west, south, east, north = list(bbox)` raises
\* ValueError unless bbox has exactly 4 components.
apply_bbox(q, bbox) ==
    IF ~bbox.present THEN [err |-> "none", q |-> q]
    ELSE IF Len(bbox.v) # 4 THEN [err |-> "ValueError", q |-> <<>>]
    ELSE LET west == bbox.v[1]
             south == bbox.v[2]
             east == bbox.v[3]
             north == bbox.v[4]
             keep(r) == /\ r.vehicle_x # Null
                        /\ r.vehicle_y # Null
                        /\ r.vehicle_x >= west
                        /\ r.vehicle_x <= east
                        /\ r.vehicle_y >= south
                        /\ r.vehicle_y <= north
         IN  [err |-> "none", q |-> SelectSeq(q, keep)]

\* _apply_ids with `if vehicle_ids is None` for `if not vehicle_ids`.
apply_ids_none_only(q, vehicle_ids) ==
    IF ~vehicle_ids.present THEN q
    ELSE LET keep(r) == r.vehicle_id \in Range(vehicle_ids.v)
         IN  SelectSeq(q, keep)

\* TrafficData._apply_ids: `not vehicle_ids` holds for None and for [].
apply_ids(q, vehicle_ids) ==
    IF ~vehicle_ids.present \/ vehicle_ids.v = <<>> THEN q
    ELSE LET keep(r) == r.vehicle_id \in Range(vehicle_ids.v)
         IN  SelectSeq(q, keep)

\* (timestep_time / sample_every).floor().cast(Int64), sample_every > 0
bucket(r, sample_every) == r.timestep_time \div sample_every

Reverse(s) == [i \in 1..Len(s) |-> s[Len(s) + 1 - i]]

\* _sample with maintain_order=False: the groups come out in another order
\* (here the reverse one).
sample_unordered(q, sample_every) ==
    IF sample_every <= 0 THEN q
    ELSE LET same(i, j) == /\ q[i].vehicle_id = q[j].vehicle_id
                           /\ bucket(q[i], sample_every) = bucket(q[j], sample_every)
             first(i) == \A j \in 1..(i - 1) : ~same(i, j)
             RECURSIVE scan(_)
             scan(i) == IF i > Len(q) THEN <<>>
                        ELSE IF first(i) THEN <<q[i]>> \o scan(i + 1)
                        ELSE scan(i + 1)
         IN  Reverse(scan(1))

\* _sample with agg(pl.all().last()): each group's last row instead of its
\* first, the groups still in the order of their first rows.
sample_last(q, sample_every) ==
    IF sample_every <= 0 THEN q
    ELSE LET same(i, j) == /\ q[i].vehicle_id = q[j].vehicle_id
                           /\ bucket(q[i], sample_every) = bucket(q[j], sample_every)
             first(i) == \A j \in 1..(i - 1) : ~same(i, j)
             last(i) == CHOOSE j \in i..Len(q) :
                            same(i, j) /\ \A k \in (j + 1)..Len(q) : ~same(i, k)
             RECURSIVE scan(_)
             scan(i) == IF i > Len(q) THEN <<>>
                        ELSE IF first(i) THEN <<q[last(i)]>> \o scan(i + 1)
                        ELSE scan(i + 1)
         IN  scan(1)

\* TrafficData._sample: group_by(["vehicle_id", "_bucket"],
\* maintain_order=True).agg(pl.all().first()): one row per group, the
\* group's first, the groups in the order of their first rows.
sample(q, sample_every) ==
    IF sample_every <= 0 THEN q
    ELSE LET same(i, j) == /\ q[i].vehicle_id = q[j].vehicle_id
                           /\ bucket(q[i], sample_every) = bucket(q[j], sample_every)
             first(i) == \A j \in 1..(i - 1) : ~same(i, j)
             RECURSIVE scan(_)
             scan(i) == IF i > Len(q) THEN <<>>
                        ELSE IF first(i) THEN <<q[i]>> \o scan(i + 1)
                        ELSE scan(i + 1)
         IN  scan(1)

\* q.select(pl.col("vehicle_id").unique()) ... sorted([str(x) for x in ids])
sorted_unique_ids(q) ==
    LET hit(v) == \E i \in 1..Len(q) : q[i].vehicle_id = v
    IN  SelectSeq(IdOrder, hit)

(***************************************************************************)
(* app.py: _parse_bbox.  A string is a sequence of characters.             *)
(***************************************************************************)
Digits == <<"0", "1", "2", "3", "4", "5", "6", "7", "8", "9">>
IsDigit(c) == \E d \in 1..10 : Digits[d] = c
DigitValue(c) == (CHOOSE d \in 1..10 : Digits[d] = c) - 1

\* bbox.split(","): the parts between the commas.
RECURSIVE split(_)
split(str) ==
    IF \A i \in 1..Len(str) : str[i] # "," THEN <<str>>
    ELSE LET k == CHOOSE i \in 1..Len(str) :
                      str[i] = "," /\ \A j \in 1..(i - 1) : str[j] # ","
         IN  <<SubSeq(str, 1, k - 1)>> \o split(SubSeq(str, k + 1, Len(str)))

\* float(part) of a part made of digits; any other part raises ValueError.
IsNumber(part) == part # <<>> /\ \A i \in 1..Len(part) : IsDigit(part[i])
RECURSIVE to_float(_)
to_float(part) ==
    IF part = <<>> THEN 0
    ELSE 10 * to_float(SubSeq(part, 1, Len(part) - 1)) + DigitValue(part[Len(part)])

parse_bbox(bbox) ==
    IF ~bbox.present \/ bbox.v = <<>> THEN [err |-> "none", bbox |-> None]
    ELSE LET parts == split(bbox.v) IN
         IF Len(parts) # 4 THEN [err |-> "ValueError", bbox |-> None]
         ELSE IF \E i \in 1..4 : ~IsNumber(parts[i])
         THEN [err |-> "ValueError", bbox |-> None]
         ELSE [err |-> "none",
               bbox |-> Some([i \in 1..4 |-> to_float(parts[i])])]

(***************************************************************************)
(* data.py: the three operations.  A result also records, for the          *)
(* properties below, the filter steps that ran before the call returned    *)
(* or raised (steps) and the view as it stood before truncation (pre).     *)
(***************************************************************************)
NoStats == [rows |-> 0, vehicles |-> 0, truncated |-> FALSE,
            sample_every |-> 0, max_points |-> 0]

Raised(e, steps) ==
    [err |-> e, steps |-> steps, pre |-> <<>>, points |-> <<>>,
     coords |-> <<>>, vehicleIds |-> <<>>, truncated |-> FALSE,
     pointCount |-> 0, stats |-> NoStats]

\* TrafficData.vehicles
vehicles(self, time_start, time_end, bbox, limit) ==
    LET q1 == apply_time(self.df, time_start, time_end)
        b == apply_bbox(q1, bbox)
    IN  IF b.err # "none" THEN Raised(b.err, <<"time">>)
        ELSE LET ids == sorted_unique_ids(b.q)
             IN  [Raised("none", <<"time", "bbox">>) EXCEPT
                     !.pre = b.q,
                     !.vehicleIds = Head_n(ids, Max(0, limit))]

\* The truncation of trajectory (data.py:141-144) and of query
\* (data.py:189-192): `if max_points and max_points > 0 and q.height >
\* max_points: q = q.head(max_points); truncated = True`.
truncate_at_limit(q, max_points) ==
    LET cut == max_points # 0 /\ max_points > 0 /\ Len(q) >= max_points
    IN  [truncated |-> cut, q |-> IF cut THEN Head_n(q, max_points) ELSE q]

truncate(q, max_points) ==
    LET cut == max_points # 0 /\ max_points > 0 /\ Len(q) > max_points
    IN  [truncated |-> cut, q |-> IF cut THEN Head_n(q, max_points) ELSE q]

\* trajectory's `if time_start is not None and time_end is not None`
either_bound(time_start, time_end) == time_start.present \/ time_end.present

both_bounds(time_start, time_end) == time_start.present /\ time_end.present

\* TrafficData.trajectory
trajectory(self, vehicle_id, time_start, time_end, max_points) ==
    LET isVeh(r) == r.vehicle_id = vehicle_id
        q1 == SelectSeq(self.df, isVeh)
        q2 == SelectSeq(q1, is_not_null)
        timed == both_bounds(time_start, time_end)
        q3 == IF timed THEN apply_time(q2, time_start.v, time_end.v) ELSE q2
        tr == truncate(q3, max_points)
        q4 == tr.q
        coords == [i \in 1..Len(q4) |-> <<q4[i].vehicle_x, q4[i].vehicle_y>>]
    IN  [Raised("none", IF timed THEN <<"time">> ELSE <<>>) EXCEPT
            !.pre = q3,
            !.truncated = tr.truncated,
            !.pointCount = Len(coords),
            !.coords = coords,
            !.points = [i \in 1..Len(q4) |->
                           [t |-> q4[i].timestep_time,
                            lon |-> q4[i].vehicle_x,
                            lat |-> q4[i].vehicle_y]]]

\* The point dicts of query (data.py:195-204).
query_points(q) ==
    [i \in 1..Len(q) |-> [t |-> q[i].timestep_time,
                          vehicleId |-> q[i].vehicle_id,
                          lon |-> q[i].vehicle_x,
                          lat |-> q[i].vehicle_y]]

\* query with the vehicles counted after the truncation instead of before.
query_result_count_after_cut(q, max_points, sample_every) ==
    LET tr == truncate(q, max_points)
        vehicle_ids_hit == IF Len(tr.q) > 0 THEN sorted_unique_ids(tr.q)
                           ELSE <<>>
        points == query_points(tr.q)
    IN  [Raised("none", <<"time", "bbox", "ids", "notnull", "sample">>)
         EXCEPT
            !.pre = q,
            !.points = points,
            !.vehicleIds = vehicle_ids_hit,
            !.truncated = tr.truncated,
            !.stats = [rows |-> Len(points),
                       vehicles |-> Len(vehicle_ids_hit),
                       truncated |-> tr.truncated,
                       sample_every |-> sample_every,
                       max_points |-> max_points]]

\* TrafficData.query from the sampled view q on (data.py:182-213): the
\* vehicles hit, then the truncation, the points and the statistics.
query_result(q, max_points, sample_every) ==
    LET vehicle_ids_hit == IF Len(q) > 0 THEN sorted_unique_ids(q) ELSE <<>>
        tr == truncate(q, max_points)
        points == query_points(tr.q)
    IN  [Raised("none", <<"time", "bbox", "ids", "notnull", "sample">>)
         EXCEPT
            !.pre = q,
            !.points = points,
            !.vehicleIds = vehicle_ids_hit,
            !.truncated = tr.truncated,
            !.stats = [rows |-> Len(points),
                       vehicles |-> Len(vehicle_ids_hit),
                       truncated |-> tr.truncated,
                       sample_every |-> sample_every,
                       max_points |-> max_points]]

\* TrafficData.query
query(self, time_start, time_end, bbox, vehicle_ids, max_points, sample_every) ==
    LET q1 == apply_time(self.df, time_start, time_end)
        b == apply_bbox(q1, bbox)
    IN  IF b.err # "none" THEN Raised(b.err, <<"time">>)
        ELSE LET q3 == apply_ids(b.q, vehicle_ids)
                 q4 == SelectSeq(q3, is_not_null)
                 q5 == sample(q4, sample_every)
             IN  query_result(q5, max_points, sample_every)

(***************************************************************************)
(* The inputs                                                              *)
(***************************************************************************)
Required == {"timestep_time", "vehicle_id", "vehicle_x", "vehicle_y"}

\* The column sets of the files: complete, or lacking one required column.
ColumnSets == {Required, Required \ {"vehicle_y"}, Required \ {"timestep_time"}}

\* Positions (lon, lat) of the rows of a file; a null cell is Null.
Positions == {<<1, 0>>, <<0, 1>>, <<Null, 0>>, <<0, Null>>}

CsvRows == {[vehicle_id |-> v, timestep_time |-> t,
             vehicle_x |-> p[1], vehicle_y |-> p[2]] :
               v \in VehicleIds, t \in Times, p \in Positions}

RowSeqs == UNION {[1..n -> CsvRows] : n \in 0..MaxRows}

\* Optional times, boxes and identifier lists of the calls.
OptTimes == {NoneNum} \cup {Some(t) : t \in Times}
Bboxes == {None, Some(<<0, 0, 1, 1>>), Some(<<1, 1, 1, 1>>),
           Some(<<0, 0, 0, 0>>), Some(<<0, 0, 1>>)}
BboxStrings == {None, Some(<<>>),
                Some(<<"0", ",", "0", ",", "1", ",", "1">>),
                Some(<<"1", ",", "1", ",", "1", ",", "1">>),
                Some(<<"0", ",", "0", ",", "0", ",", "0">>),
                Some(<<"0", ",", "0", ",", "1">>),
                Some(<<"0", ",", ",", "1", ",", "1">>)}
IdLists == {None, Some(<<>>), Some(<<"v1">>), Some(<<"unknown">>)}
MaxPointsChoices == (-1)..MaxRows
SampleEveryChoices == (-1)..(MaxTime + 1)
Limits == 1..MaxRows

NoReq == [op |-> "none", time_start |-> NoneNum, time_end |-> NoneNum,
          bbox |-> None, vehicle_ids |-> None, vehicle_id |-> "unknown",
          max_points |-> 0, sample_every |-> 0, limit |-> 0]

(***************************************************************************)
(* SpecQuery: calls on one loaded TrafficData                              *)
(***************************************************************************)
\* No TrafficData object (app.py:67, getattr's default None).
NoTraffic == 0

ServerIdle ==
    /\ csv_columns = Required
    /\ app_traffic = NoTraffic
    /\ pc = [w \in Workers |-> "idle"]
    /\ op = [w \in Workers |-> "none"]
    /\ traffic = [w \in Workers |-> NoTraffic]
    /\ built = [w \in Workers |-> NoTraffic]
    /\ served = [w \in Workers |-> NoTraffic]
    /\ outcome = [w \in Workers |-> "none"]
    /\ requests = [w \in Workers |-> 0]
    /\ failedBefore = [w \in Workers |-> FALSE]
    /\ loadsStarted = 0
    /\ loadsFailed = 0

\* The state after TrafficData(csv_path) has returned.
InitQuery ==
    /\ ServerIdle
    /\ \E columns \in ColumnSets, rows \in RowSeqs :
          LET self == TrafficData([columns |-> columns, rows |-> rows])
          IN  self.err = "none" /\ td = self
    /\ req = NoReq
    /\ res = Raised("none", <<>>)

\* app.py vehicles(): _get_traffic() returns the cached object, then
\* _parse_bbox, then TrafficData.vehicles.
VehiclesCall ==
    /\ req = NoReq
    /\ \E ts \in Times, te \in Times, bbox \in BboxStrings, limit \in Limits :
        LET p == parse_bbox(bbox) IN
        /\ req' = [NoReq EXCEPT !.op = "vehicles", !.time_start = Some(ts),
                       !.time_end = Some(te), !.bbox = bbox, !.limit = limit]
        /\ res' = IF p.err # "none" THEN Raised(p.err, <<>>)
                  ELSE vehicles(td, ts, te, p.bbox, limit)
        /\ UNCHANGED <<td, serverVars>>

\* TrafficData.trajectory (app.py trajectory() calls it with max_points = 0).
TrajectoryCall ==
    /\ req = NoReq
    /\ \E vehicle_id \in Range(IdOrder), ts \in OptTimes, te \in OptTimes,
       max_points \in MaxPointsChoices :
        /\ req' = [NoReq EXCEPT !.op = "trajectory", !.vehicle_id = vehicle_id,
                       !.time_start = ts, !.time_end = te,
                       !.max_points = max_points]
        /\ res' = trajectory(td, vehicle_id, ts, te, max_points)
        /\ UNCHANGED <<td, serverVars>>

\* app.py query(): the body's fields go to TrafficData.query as they are.
QueryCall ==
    /\ req = NoReq
    /\ \E ts \in Times, te \in Times, bbox \in Bboxes, vehicle_ids \in IdLists,
       max_points \in MaxPointsChoices, sample_every \in SampleEveryChoices :
        /\ req' = [NoReq EXCEPT !.op = "query", !.time_start = Some(ts),
                       !.time_end = Some(te), !.bbox = bbox,
                       !.vehicle_ids = vehicle_ids, !.max_points = max_points,
                       !.sample_every = sample_every]
        /\ res' = query(td, ts, te, bbox, vehicle_ids, max_points, sample_every)
        /\ UNCHANGED <<td, serverVars>>

\* The answer has been sent; the object is ready for the next call.
Respond ==
    /\ req # NoReq
    /\ req' = NoReq
    /\ res' = Raised("none", <<>>)
    /\ UNCHANGED <<td, serverVars>>

NextQuery == VehiclesCall \/ TrajectoryCall \/ QueryCall \/ Respond

SpecQuery == InitQuery /\ [][NextQuery]_vars

(***************************************************************************)
(* Spec: app.py's lazy-load handle under concurrent requests.  The         *)
(* endpoints are synchronous functions, which the framework runs on        *)
(* worker threads; _get_traffic takes no lock, so the threads interleave   *)
(* between its statements, and the parse inside TrafficData() is long.     *)
(***************************************************************************)
Ops == {"vehicles", "trajectory", "query"}

\* The rows of the file at csv_path (one valid row: a complete file loads).
ServedRows == <<[vehicle_id |-> "v1", timestep_time |-> 0,
                 vehicle_x |-> 0, vehicle_y |-> 0]>>

Init ==
    /\ csv_columns \in ColumnSets
    /\ app_traffic = NoTraffic
    /\ pc = [w \in Workers |-> "idle"]
    /\ op = [w \in Workers |-> "none"]
    /\ traffic = [w \in Workers |-> NoTraffic]
    /\ built = [w \in Workers |-> NoTraffic]
    /\ served = [w \in Workers |-> NoTraffic]
    /\ outcome = [w \in Workers |-> "none"]
    /\ requests = [w \in Workers |-> 0]
    /\ failedBefore = [w \in Workers |-> FALSE]
    /\ loadsStarted = 0
    /\ loadsFailed = 0
    /\ td = TrafficData([columns |-> Required, rows |-> ServedRows])
    /\ req = NoReq
    /\ res = Raised("none", <<>>)

\* A request for vehicles, trajectory or query reaches worker w.
BeginRequest(w) ==
    /\ pc[w] = "idle"
    /\ requests[w] < MaxRequests
    /\ \E o \in Ops : op' = [op EXCEPT ![w] = o]
    /\ requests' = [requests EXCEPT ![w] = @ + 1]
    /\ failedBefore' = [failedBefore EXCEPT ![w] = loadsFailed > 0]
    /\ outcome' = [outcome EXCEPT ![w] = "none"]
    /\ pc' = [pc EXCEPT ![w] = "getattr"]
    /\ UNCHANGED <<csv_columns, app_traffic, traffic, built, served,
                   loadsStarted, loadsFailed, queryVars>>

\* _get_traffic: traffic = getattr(app.state, "traffic", None)
GetAttr(w) ==
    /\ pc[w] = "getattr"
    /\ traffic' = [traffic EXCEPT ![w] = app_traffic]
    /\ pc' = [pc EXCEPT ![w] = IF app_traffic = NoTraffic THEN "construct"
                                ELSE "return"]
    /\ UNCHANGED <<csv_columns, app_traffic, op, built, served, outcome,
                   requests, failedBefore, loadsStarted, loadsFailed, queryVars>>

\* _get_traffic: TrafficData(str(csv_path)) starts to parse the source.
\* The object under construction is the loadsStarted'-th of the process.
StartLoad(w) ==
    /\ pc[w] = "construct"
    /\ loadsStarted' = loadsStarted + 1
    /\ built' = [built EXCEPT ![w] = loadsStarted + 1]
    /\ pc' = [pc EXCEPT ![w] = "loading"]
    /\ UNCHANGED <<csv_columns, app_traffic, op, traffic, served, outcome,
                   requests, failedBefore, loadsFailed, queryVars>>

\* TrafficData(str(csv_path)) returns the object, or raises: the exception
\* leaves _get_traffic and the endpoint, the request is answered with an
\* error and app.state.traffic stays as it was.
FinishLoad(w) ==
    /\ pc[w] = "loading"
    /\ IF TrafficData([columns |-> csv_columns, rows |-> ServedRows]).err = "none"
       THEN /\ pc' = [pc EXCEPT ![w] = "store"]
            /\ UNCHANGED <<built, outcome, loadsFailed>>
       ELSE /\ pc' = [pc EXCEPT ![w] = "idle"]
            /\ built' = [built EXCEPT ![w] = NoTraffic]
            /\ outcome' = [outcome EXCEPT ![w] = "unavailable"]
            /\ loadsFailed' = loadsFailed + 1
    /\ UNCHANGED <<csv_columns, app_traffic, op, traffic, served, requests,
                   failedBefore, loadsStarted, queryVars>>

\* _get_traffic: app.state.traffic = <the new object>
Store(w) ==
    /\ pc[w] = "store"
    /\ app_traffic' = built[w]
    /\ built' = [built EXCEPT ![w] = NoTraffic]
    /\ pc' = [pc EXCEPT ![w] = "reread"]
    /\ UNCHANGED <<csv_columns, op, traffic, served, outcome, requests,
                   failedBefore, loadsStarted, loadsFailed, queryVars>>

\* _get_traffic: traffic = app.state.traffic
Reread(w) ==
    /\ pc[w] = "reread"
    /\ traffic' = [traffic EXCEPT ![w] = app_traffic]
    /\ pc' = [pc EXCEPT ![w] = "return"]
    /\ UNCHANGED <<csv_columns, app_traffic, op, built, served, outcome,
                   requests, failedBefore, loadsStarted, loadsFailed, queryVars>>

\* _get_traffic returns traffic; the endpoint answers from that object.
Serve(w) ==
    /\ pc[w] = "return"
    /\ served' = [served EXCEPT ![w] = traffic[w]]
    /\ outcome' = [outcome EXCEPT ![w] = "ok"]
    /\ pc' = [pc EXCEPT ![w] = "idle"]
    /\ UNCHANGED <<csv_columns, app_traffic, op, traffic, built, requests,
                   failedBefore, loadsStarted, loadsFailed, queryVars>>

Next ==
    \E w \in Workers :
        \/ BeginRequest(w)
        \/ GetAttr(w)
        \/ StartLoad(w)
        \/ FinishLoad(w)
        \/ Store(w)
        \/ Reread(w)
        \/ Serve(w)

Spec == Init /\ [][Next]_vars

(***************************************************************************)
(* Properties of the lazy-load handle (checked under Spec)                 *)
(***************************************************************************)
Loadable == TrafficData([columns |-> csv_columns, rows |-> ServedRows]).err = "none"

\* C1: initialization is single-flight: with a loadable source, however the
\* concurrent first callers interleave, at most one parse of the source
\* starts.
C1_SingleFlight == Loadable => loadsStarted <= 1

\* C2: every caller is served from the same Table object: any two workers
\* that have answered a request answered it from the same TrafficData.
C2_SameTableForAll ==
    \A w1 \in Workers, w2 \in Workers :
        (served[w1] # NoTraffic /\ served[w2] # NoTraffic)
            => served[w1] = served[w2]

\* C3: a failed load is not retried: a request that begins after a parse has
\* failed starts no parse of the source.
C3_NoParseAfterFailure ==
    \A w \in Workers : failedBefore[w] => pc[w] # "loading"

(***************************************************************************)
(* Properties of the query engine (checked under SpecQuery)                *)
(***************************************************************************)
IsCall(o) == req.op = o
Ok(o) == req.op = o /\ res.err = "none"

\* The box of the call does not have exactly 4 components.
MalformedBox ==
    \/ /\ req.op = "query"
       /\ req.bbox.present
       /\ Len(req.bbox.v) # 4
    \/ /\ req.op = "vehicles"
       /\ req.bbox.present
       /\ req.bbox.v # <<>>
       /\ Len(split(req.bbox.v)) # 4

\* C4: a malformed bounding box is rejected before any filter has run, on
\* the vehicles path and on the query path, and nothing is returned.
C4_MalformedBoxBeforeFilters ==
    MalformedBox => /\ res.err = "ValueError"
                    /\ res.steps = <<>>
                    /\ res.points = <<>>
                    /\ res.vehicleIds = <<>>

InBox(p, box) ==
    /\ box[1] <= p.lon /\ p.lon <= box[3]
    /\ box[2] <= p.lat /\ p.lat <= box[4]

\* C5: every point query returns lies in the time range (so none is returned
\* when timeStart > timeEnd), inside the box when one was given, and belongs
\* to a listed vehicle when a non-empty list was given.
C5_ReturnedPointsMatch ==
    Ok("query") =>
        /\ \A i \in 1..Len(res.points) :
              LET p == res.points[i] IN
              /\ req.time_start.v <= p.t /\ p.t <= req.time_end.v
              /\ req.bbox.present => InBox(p, req.bbox.v)
              /\ (req.vehicle_ids.present /\ req.vehicle_ids.v # <<>>)
                    => p.vehicleId \in Range(req.vehicle_ids.v)
        /\ req.time_start.v > req.time_end.v => res.points = <<>>

\* A query with box, list, sampling and truncation all on that returns a
\* point and leaves a row of the table out.
C5_Witness ==
    /\ Ok("query")
    /\ req.bbox.present
    /\ req.vehicle_ids.present /\ req.vehicle_ids.v # <<>>
    /\ req.sample_every > 0
    /\ req.max_points > 0
    /\ Len(res.points) > 0
    /\ Len(res.points) < Len(td.df)

PreVehicles == {res.pre[i].vehicle_id : i \in 1..Len(res.pre)}
ReturnedVehicles == {res.points[i].vehicleId : i \in 1..Len(res.points)}

\* C6: stats.vehicles and the vehicleIds list of query count the distinct
\* vehicles of the filtered and sampled view before truncation, so
\* stats.vehicles >= the distinct vehicles among the returned points.
C6_VehiclesBeforeTruncation ==
    Ok("query") =>
        /\ res.stats.vehicles = Cardinality(PreVehicles)
        /\ Range(res.vehicleIds) = PreVehicles
        /\ Len(res.vehicleIds) = Cardinality(PreVehicles)
        /\ res.stats.vehicles >= Cardinality(ReturnedVehicles)

\* Two vehicles with one matching row each and max_points = 1:
\* rows = 1, vehicles = 2, truncated.
C6_Witness ==
    /\ Ok("query")
    /\ req.max_points = 1
    /\ Len(res.pre) = 2
    /\ Cardinality(PreVehicles) = 2
    /\ res.stats.rows = 1
    /\ res.stats.vehicles = 2
    /\ res.stats.truncated
    /\ Cardinality(ReturnedVehicles) = 1

\* Row i of the view and point i of the answer hold the same values.
SamePoint(r, p) ==
    /\ p.t = r.timestep_time
    /\ p.lon = r.vehicle_x
    /\ p.lat = r.vehicle_y
    /\ req.op = "query" => p.vehicleId = r.vehicle_id

\* C7: in query and trajectory, truncated holds iff max_points > 0 and the
\* view before truncation has more than max_points rows, and then exactly its
\* first max_points rows are returned; otherwise the whole view is returned;
\* stats.rows / pointCount is the number of points returned.
C7_Truncation ==
    (Ok("query") \/ Ok("trajectory")) =>
        LET n == Len(res.pre)
            over == req.max_points > 0 /\ n > req.max_points
        IN  /\ res.truncated = over
            /\ Len(res.points) = IF over THEN req.max_points ELSE n
            /\ \A i \in 1..Len(res.points) : SamePoint(res.pre[i], res.points[i])
            /\ req.op = "query" =>
                  /\ res.stats.truncated = over
                  /\ res.stats.rows = Len(res.points)
            /\ req.op = "trajectory" => res.pointCount = Len(res.points)

\* A trajectory of two rows cut to its first row.
C7_Witness ==
    /\ Ok("trajectory")
    /\ req.max_points = 1
    /\ Len(res.pre) = 2
    /\ res.truncated
    /\ res.pointCount = 1

\* C8: sampling is idempotent: sampling the sampled view of a query again
\* with the same width (also a width <= 0) gives the same rows in the same
\* order.
C8_SampleIdempotent ==
    Ok("query") => sample(res.pre, req.sample_every) = res.pre

\* Sampling alone (no other filter excludes a row) has dropped a row of the table.
C8_Witness ==
    /\ Ok("query")
    /\ req.sample_every > 0
    /\ ~req.bbox.present /\ ~req.vehicle_ids.present
    /\ req.time_start.v = 0 /\ req.time_end.v = MaxTime
    /\ Len(res.pre) < Len(td.df)
    /\ Len(res.pre) >= 1

RowsOf(vehicle_id) ==
    LET isVeh(r) == r.vehicle_id = vehicle_id IN SelectSeq(td.df, isVeh)

\* C9: trajectory filters by time only when both bounds are supplied: with
\* one bound or none the view is every row of the vehicle, with both it is
\* the rows with timeStart <= time <= timeEnd; the rows are in ascending time
\* order; an unknown vehicle gives no point, pointCount 0 and truncated
\* false, not an error.
C9_TrajectoryTimeFilter ==
    IsCall("trajectory") =>
        LET all == RowsOf(req.vehicle_id)
            inRange(r) == /\ req.time_start.v <= r.timestep_time
                          /\ r.timestep_time <= req.time_end.v
        IN  /\ res.err = "none"
            /\ (req.time_start.present /\ req.time_end.present)
                  => res.pre = SelectSeq(all, inRange)
            /\ ~(req.time_start.present /\ req.time_end.present)
                  => res.pre = all
            /\ \A i \in 1..Len(res.points), j \in 1..Len(res.points) :
                  i < j => res.points[i].t <= res.points[j].t
            /\ all = <<>> => /\ res.points = <<>>
                             /\ res.pointCount = 0
                             /\ ~res.truncated

\* One bound only, on a vehicle with a row outside the range the bound
\* would give: both rows are returned.
C9_Witness ==
    /\ Ok("trajectory")
    /\ req.time_start.present /\ ~req.time_end.present
    /\ req.time_start.v = 1
    /\ req.max_points = 0
    /\ Len(res.points) = 2
    /\ res.points[1].t = 0

\* C10: in query an empty vehicleIds list filters nothing, as an absent one;
\* a list of unknown identifiers only gives no point, no vehicle and
\* truncated false, without an error.
C10_EmptyIdsMeansAll ==
    IsCall("query") =>
        /\ req.vehicle_ids = Some(<<>>) =>
              res = query(td, req.time_start.v, req.time_end.v, req.bbox,
                          None, req.max_points, req.sample_every)
        /\ (req.vehicle_ids = Some(<<"unknown">>) /\ ~MalformedBox) =>
              /\ res.err = "none"
              /\ res.points = <<>>
              /\ res.vehicleIds = <<>>
              /\ res.stats.vehicles = 0
              /\ ~res.stats.truncated

\* An empty list, and every row of a two-row table returned.
C10_Witness ==
    /\ Ok("query")
    /\ req.vehicle_ids = Some(<<>>)
    /\ Len(td.df) = 2
    /\ Len(res.points) = 2
    /\ res.stats.vehicles = 2

(***************************************************************************)
(* SpecSample: TrafficData._sample applied to a view.  The views are the   *)
(* non-empty tables of up to MaxViewRows rows: a filtered view of a table  *)
(* holds rows of the table in the table's order, so it is such a table     *)
(* too.  A time unit is half a second here, so that the times 0.0, 0.5,    *)
(* 1.0, 1.5 are 0, 1, 2, 3 and a width of 1.0 is 2.                        *)
(***************************************************************************)
\* The longitude of a row grows with its time, so that rows of different
\* times differ in a field other than the time; a second row at time 0 has
\* another longitude, so that a view may hold different rows of equal key.
ViewRows == {[vehicle_id |-> v, timestep_time |-> t,
              vehicle_x |-> t, vehicle_y |-> 0] :
                v \in VehicleIds, t \in 0..MaxViewTime}
            \cup {[vehicle_id |-> v, timestep_time |-> 0,
                   vehicle_x |-> 1, vehicle_y |-> 0] : v \in VehicleIds}

ViewSeqs == UNION {[1..n -> ViewRows] : n \in 1..MaxViewRows}

InitSample ==
    /\ ServerIdle
    /\ \E rows \in ViewSeqs :
          td = TrafficData([columns |-> Required, rows |-> rows])
    /\ req = NoReq
    /\ res = Raised("none", <<>>)

\* q = self._sample(q, sample_every), data.py:180, on the view td.df; the
\* sampled view is recorded in res.pre.
SampleCall ==
    /\ req = NoReq
    /\ \E sample_every \in (-1)..(MaxViewTime + 1) :
          /\ req' = [NoReq EXCEPT !.op = "sample",
                                  !.sample_every = sample_every]
          /\ res' = [Raised("none", <<"sample">>) EXCEPT
                        !.pre = sample(td.df, sample_every)]
    /\ UNCHANGED <<td, serverVars>>

NextSample == SampleCall \/ Respond

SpecSample == InitSample /\ [][NextSample]_vars

\* Rows a and b are of one group: same vehicle, same bucket.
SameGroup(a, b) ==
    /\ a.vehicle_id = b.vehicle_id
    /\ a.timestep_time \div req.sample_every
          = b.timestep_time \div req.sample_every

\* The place in the view of the first row of the group of row r.
FirstOfGroup(r) ==
    CHOOSE i \in 1..Len(td.df) :
        /\ SameGroup(td.df[i], r)
        /\ \A j \in 1..(i - 1) : ~SameGroup(td.df[j], r)

\* C11: for sample_every > 0 the sampler's output is the subsequence of the
\* view made of the first row of each (vehicle, floor(time / sample_every))
\* group: no two output rows are of one group, every group of the view has
\* a representative, the representative is the group's first row in the
\* view's order, unchanged, and of the group's earliest time, and the
\* output rows keep the order they have in the view.
C11_FirstRowPerBucket ==
    (req.op = "sample" /\ req.sample_every > 0) =>
        LET q == td.df
            out == res.pre
        IN  /\ \A k \in 1..Len(out), l \in 1..Len(out) :
                  k # l => ~SameGroup(out[k], out[l])
            /\ \A i \in 1..Len(q) :
                  \E k \in 1..Len(out) : SameGroup(q[i], out[k])
            /\ \A k \in 1..Len(out) :
                  /\ \E i \in 1..Len(q) : SameGroup(q[i], out[k])
                  /\ out[k] = q[FirstOfGroup(out[k])]
                  /\ \A i \in 1..Len(q) :
                        SameGroup(q[i], out[k])
                            => out[k].timestep_time <= q[i].timestep_time
            /\ \A k \in 1..Len(out), l \in 1..Len(out) :
                  k < l => FirstOfGroup(out[k]) < FirstOfGroup(out[l])

\* Vehicle v1 at the times 0.0, 0.5, 1.0, 1.5 sampled every 1.0: the rows
\* at 0.0 and 1.0 only.
C11_Witness ==
    /\ req.op = "sample"
    /\ req.sample_every = 2
    /\ Len(td.df) = 4
    /\ \A i \in 1..4 : /\ td.df[i].vehicle_id = "v1"
                       /\ td.df[i].timestep_time = i - 1
    /\ Len(res.pre) = 2
    /\ res.pre[1] = td.df[1]
    /\ res.pre[2] = td.df[3]

(***************************************************************************)
(* SpecLoad: the construction TrafficData(csv_path).  req holds the call's *)
(* argument, the file at csv_path as its columns and rows; an exception    *)
(* leaves no object.                                                       *)
(***************************************************************************)
NoTrafficData == [err |-> "unset", df |-> <<>>, min_time |-> 0, max_time |-> 0,
                  row_count |-> 0, vehicle_count |-> 0]

InitLoad ==
    /\ ServerIdle
    /\ td = NoTrafficData
    /\ req = NoReq
    /\ res = Raised("none", <<>>)

\* app.py:69, TrafficData(str(csv_path)): __init__ runs _load and computes
\* the statistics, or raises.
ConstructCall ==
    /\ req = NoReq
    /\ \E columns \in ColumnSets, rows \in RowSeqs :
          LET csv == [columns |-> columns, rows |-> rows]
              self == TrafficData(csv)
          IN  /\ req' = [op |-> "TrafficData", csv |-> csv]
              /\ res' = Raised(self.err, <<>>)
              /\ td' = IF self.err = "none" THEN self ELSE NoTrafficData
    /\ UNCHANGED serverVars

NextLoad == ConstructCall

SpecLoad == InitLoad /\ [][NextLoad]_vars

Count(s, r) == Cardinality({i \in 1..Len(s) : s[i] = r})

\* C12: for every source with the four required columns, also one in which
\* some or all rows lack longitude or latitude, the load succeeds: the Table
\* holds exactly the rows with both lon and lat non-null (dropped + retained
\* = input rows), sorted by (vehicleId, time) ascending, and rowCount,
\* distinctVehicleCount, minTime and maxTime are those of the retained rows.
C12_LoadKeepsValidRows ==
    (req.op = "TrafficData" /\ Required \subseteq req.csv.columns) =>
        LET rows == req.csv.rows
            retained == {i \in 1..Len(rows) : is_not_null(rows[i])}
            dropped == {i \in 1..Len(rows) : ~is_not_null(rows[i])}
        IN  /\ res.err = "none"
            /\ td.err = "none"
            /\ Len(td.df) = Cardinality(retained)
            /\ Cardinality(dropped) + Len(td.df) = Len(rows)
            /\ \A r \in CsvRows :
                  Count(td.df, r) = IF is_not_null(r) THEN Count(rows, r) ELSE 0
            /\ \A i \in 1..Len(td.df), j \in 1..Len(td.df) :
                  i < j => KeyLE(td.df[i], td.df[j])
            /\ td.row_count = Len(td.df)
            /\ td.vehicle_count
                  = Cardinality({td.df[i].vehicle_id : i \in 1..Len(td.df)})
            /\ \A i \in 1..Len(td.df) :
                  /\ td.min_time <= td.df[i].timestep_time
                  /\ td.df[i].timestep_time <= td.max_time

====
